---- MODULE Spec2Model ----
(***************************************************************************)
(* Model of the request-logging middleware of matheusd/middlelogger.        *)
(*                                                                         *)
(* One request is served by one logHandler.  Two goroutines take part: the *)
(* request goroutine, which runs ServeHTTP, the wrapped handler (through    *)
(* the loggedRequest interceptor) and ServeHTTP's deferred completion       *)
(* block; and the slowLog goroutine (the poller).  They share the           *)
(* interceptor (guarded by lr.mtx), doneChan and the observer.              *)
(*                                                                         *)
(* Time is a discrete clock `now`; it may advance between any two steps of *)
(* either goroutine, since Go gives no bound on how long a goroutine waits  *)
(* to be scheduled.  The clock starts with the request.                     *)
(*                                                                         *)
(* A critical section of lr.mtx (Lock, body, Unlock) is one step, so the    *)
(* lock is free between steps; code outside the lock (the calls into the    *)
(* underlying stream and into the observer) is a step of its own.  Steps    *)
(* local to one goroutine are joined to the step before them.               *)
(*                                                                         *)
(* Spec is that one request; FairSpec adds the scheduling the poller's end  *)
(* depends on.  SpecRace is one interceptor called from several goroutines  *)
(* of one handler; SpecTwo is one logHandler serving two requests at once.  *)
(***************************************************************************)
EXTENDS Integers, Sequences, FiniteSets, TLC

\* ---------------------------------------------------------------- bounds
\* Last clock value explored.
MaxTime == 2
\* Number of WriteHeader/Write calls the wrapped handler issues at most.
MaxOps == 2
\* Longest byte slice the wrapped handler passes to Write.
MaxLen == 1

\* Status codes the wrapped handler passes to WriteHeader.
Codes == {200, 999}
\* Values the observer's Cutoff(r) returns (<= 0 disables the poller).
Cutoffs == {-1, 0, 1, 2}
\* Pending-panic values.  "none": the goroutine is not panicking.  "nil": it
\* panics with a nil value (panic(nil) in a build where the runtime keeps
\* the nil, i.e. before Go 1.21 or with GODEBUG=panicnil=1).  "boo": any
\* non-nil value.
NoPanic == "none"
NilValue == "nil"
PanicValues == {NilValue, "boo"}

VARIABLES
  lh,        \* the logHandler built by LoggerMiddleware: which capabilities exist
  now,       \* the clock
  pc,        \* position of the request goroutine
  mtx,       \* lr.mtx: "free" between critical sections
  lr,        \* the loggedRequest: status, wroteHeader, bytesWritten
  w,         \* the underlying ResponseWriter: what was forwarded to it
  call,      \* arguments and result of the interceptor call in progress
  nOps,      \* interceptor calls the handler has issued
  panicking, \* the request goroutine's pending panic
  start,     \* ServeHTTP's start
  doneChan,  \* "nil", "open" or "closed"
  ld,        \* the LogData of the deferred block
  ppc,       \* position of the slowLog goroutine
  i,         \* slowLog's loop index
  timerAt,   \* expiry of the time.After timer of slowLog's current iteration
  psnap,     \* slowLog's (status, bytesWritten) of the current iteration
  slow,      \* LogSlowRequest calls received by the observer
  reqs,      \* LogRequest calls received by the observer
  panics,    \* LogPanic calls received by the observer
  hist,      \* history of the request (not program state)
  th,        \* goroutines of one handler calling into one interceptor
  rq,        \* requests served concurrently by one logHandler
  lrs,       \* the interceptors allocated for those requests
  chans      \* the channels made for those requests

vars == <<lh, now, pc, mtx, lr, w, call, nOps, panicking, start, doneChan, ld,
          ppc, i, timerAt, psnap, slow, reqs, panics, hist, th, rq, lrs, chans>>

\* The variables of the handler whose goroutines race, and of the concurrent
\* requests; the one request of Spec leaves them alone.
raceVars == <<th>>
twoVars == <<rq, lrs, chans>>

reqVars == <<pc, lr, w, call, nOps, panicking, start, doneChan, ld, reqs, panics>>
pollVars == <<ppc, i, timerAt, psnap, slow>>

\* ------------------------------------------------------------ construction
\* LoggerMiddleware: the optional capabilities are resolved once.
LoggerMiddleware(hasPanic, hasSlow, cutoff, multiple) ==
  [panicLogger |-> hasPanic,
   slowLogger  |-> [present  |-> hasSlow,
                    cutoff   |-> IF hasSlow THEN cutoff ELSE 0,
                    multiple |-> hasSlow /\ multiple]]

Handlers ==
  { LoggerMiddleware(p, s, c, m) :
      p \in BOOLEAN, s \in BOOLEAN, c \in Cutoffs, m \in BOOLEAN }

NewLoggedRequest == [status |-> 0, wroteHeader |-> FALSE, bytesWritten |-> 0]

NoCall == [op |-> "none", arg |-> 0, written |-> 0]
NoSnap == [status |-> 0, bytesWritten |-> 0, hdrSet |-> FALSE, hdrDone |-> FALSE]
NoData == [status |-> 0, bytesWritten |-> 0, hdrSet |-> FALSE, hdrDone |-> FALSE]

Init ==
  /\ lh \in Handlers
  /\ now = 0
  /\ pc = "idle"
  /\ mtx = "free"
  /\ lr = NewLoggedRequest
  /\ w = [headers |-> <<>>, writes |-> 0, bytes |-> 0]
  /\ call = NoCall
  /\ nOps = 0
  /\ panicking = NoPanic
  /\ start = 0
  /\ doneChan = "nil"
  /\ ld = NoData
  /\ ppc = "none"
  /\ i = 0
  /\ timerAt = 0
  /\ psnap = NoSnap
  /\ slow = <<>>
  /\ reqs = <<>>
  /\ panics = <<>>
  /\ th = <<>>
  /\ rq = <<>>
  /\ lrs = <<>>
  /\ chans = <<>>
  /\ hist = [hdrArgs   |-> <<>>,   \* WriteHeader arguments, in lock order
             hdrDone   |-> FALSE,  \* a WriteHeader call has returned
             issuedLen |-> 0,      \* sum of len(data) over the Write calls issued
             raised    |-> NoPanic,\* the panic the handler raised
             atEnd     |-> NewLoggedRequest, \* lr when the handler finished
             tEnd      |-> 0,      \* clock when the handler finished
             snapTaken |-> FALSE,  \* the terminal snapshot was taken
             slowAtSnap|-> 0,      \* Len(slow) at the terminal snapshot
             closes    |-> 0,      \* close(doneChan) statements executed
             closeFault|-> FALSE]  \* a close of a nil or closed channel

\* ------------------------------------------------------------------ clock
Tick ==
  /\ pc # "idle"
  /\ now < MaxTime
  /\ now' = now + 1
  /\ UNCHANGED <<lh, raceVars, twoVars, mtx, hist>>
  /\ UNCHANGED reqVars
  /\ UNCHANGED pollVars


\* ------------------------------------------------- the interceptor (lr)
\* lr.mtx.Lock(), which a goroutine completes when the lock is free (the
\* guard mtx = "free" of the critical sections).
Lock(m) == "held"

\* lr.mtx.Unlock(), at the end of WriteHeader's and Write's critical section.
Unlock(m) == "free"

\* A deferred Unlock that runs only when the caller of currentData returns.
UnlockDeferredLate(m) == m

\* defer lr.mtx.Unlock() of currentData: it runs when currentData returns,
\* before the caller goes on.
UnlockDeferred(m) == "free"

\* A Write that adds len(data), whatever the stream returned.
CountedIssued(dataLen, written) == dataLen

\* A Write that subtracts the count.
CountedNegated(dataLen, written) == 0 - written

\* What Write adds to lr.bytesWritten: the count the underlying Write returned.
Counted(dataLen, written) == written

\* A currentData that reads the status alone.
CurrentDataStatusOnly(l) == [status |-> l.status, bytesWritten |-> 0]

\* currentData: the pair read under the lock.
CurrentData(l) == [status |-> l.status, bytesWritten |-> l.bytesWritten]

\* A deferred block that starts with the snapshot, without the cancellation.
HandlerEndsAtSnapshot(p) ==
  /\ panicking' = p
  /\ pc' = "snapshot"
  /\ hist' = [hist EXCEPT !.raised = p, !.atEnd = lr, !.tEnd = now]

\* The wrapped handler has finished, by returning (p = NoPanic) or by
\* panicking with p: the deferred block of ServeHTTP runs next.
HandlerEnds(p) ==
  /\ panicking' = p
  /\ pc' = "deferred"
  /\ hist' = [hist EXCEPT !.raised = p, !.atEnd = lr, !.tEnd = now]

\* A WriteHeader that records the code of every call.
RecordStatusEveryCall(l, code) == [l EXCEPT !.wroteHeader = TRUE, !.status = code]

\* WriteHeader's critical section: only the first call records its code.
RecordStatus(l, code) ==
  IF l.wroteHeader THEN l ELSE [l EXCEPT !.wroteHeader = TRUE, !.status = code]

\* A WriteHeader that forwards every call.
ForwardsAlways(l) == TRUE

\* WriteHeader goes on to lr.w.WriteHeader(code) only if it found wroteHeader
\* unset.
Forwards(l) == ~l.wroteHeader

\* The wrapped handler calls lr.WriteHeader(code).  Lock, the test of
\* wroteHeader, the two assignments and Unlock are one step: the critical
\* section.  A call that finds wroteHeader set unlocks and returns.
CallWriteHeader(code) ==
  /\ pc = "run"
  /\ nOps < MaxOps
  /\ mtx = "free"
  /\ mtx' = Unlock(Lock(mtx))
  /\ nOps' = nOps + 1
  /\ lr' = RecordStatus(lr, code)
  /\ IF Forwards(lr)
       THEN /\ pc' = "wh_fwd"
            /\ call' = [op |-> "WriteHeader", arg |-> code, written |-> 0]
            /\ hist' = [hist EXCEPT !.hdrArgs = Append(@, code)]
       ELSE /\ pc' = "run"
            /\ call' = NoCall
            /\ hist' = [hist EXCEPT !.hdrArgs = Append(@, code),
                                    !.hdrDone = TRUE]
  /\ UNCHANGED <<lh, raceVars, twoVars, now, w, panicking, start, doneChan, ld, reqs, panics>>
  /\ UNCHANGED pollVars

\* WriteHeader: lr.w.WriteHeader(code), outside the lock; it returns.
WriteHeaderForward ==
  /\ pc = "wh_fwd"
  /\ w' = [w EXCEPT !.headers = Append(@, call.arg)]
  /\ pc' = "run"
  /\ call' = NoCall
  /\ hist' = [hist EXCEPT !.hdrDone = TRUE]
  /\ UNCHANGED <<lh, raceVars, twoVars, now, mtx, lr, nOps, panicking, start, doneChan, ld, reqs, panics>>
  /\ UNCHANGED pollVars

\* WriteHeader: lr.w.WriteHeader(code) panics (net/http does for an invalid
\* code); the panic unwinds through the handler.
WriteHeaderForwardPanics ==
  /\ pc = "wh_fwd"
  /\ call' = NoCall
  /\ HandlerEnds("boo")
  /\ UNCHANGED <<lh, raceVars, twoVars, now, mtx, lr, w, nOps, start, doneChan, ld, reqs, panics>>
  /\ UNCHANGED pollVars

\* The wrapped handler calls lr.Write(data), len(data) = n:
\* written, err := lr.w.Write(data); the stream takes 0..n bytes.  (A stream
\* whose Write panics does so before the interceptor changes anything: that
\* is HandlerPanic.)
CallWrite(n, written) ==
  /\ pc = "run"
  /\ nOps < MaxOps
  /\ written \in 0..n
  /\ nOps' = nOps + 1
  /\ w' = [w EXCEPT !.writes = @ + 1, !.bytes = @ + written]
  /\ call' = [op |-> "Write", arg |-> n, written |-> written]
  /\ pc' = "w_lock"
  /\ hist' = [hist EXCEPT !.issuedLen = @ + n]
  /\ UNCHANGED <<lh, raceVars, twoVars, now, mtx, lr, panicking, start, doneChan, ld, reqs, panics>>
  /\ UNCHANGED pollVars

\* Write: Lock; lr.bytesWritten += int64(written); Unlock; return.
WriteCount ==
  /\ pc = "w_lock"
  /\ mtx = "free"
  /\ mtx' = Unlock(Lock(mtx))
  /\ lr' = [lr EXCEPT !.bytesWritten = @ + Counted(call.arg, call.written)]
  /\ call' = NoCall
  /\ pc' = "run"
  /\ UNCHANGED <<lh, raceVars, twoVars, now, w, nOps, panicking, start, doneChan, ld, reqs, panics, hist>>
  /\ UNCHANGED pollVars

\* ------------------------------------------------- the wrapped handler
\* lh.next.ServeHTTP(lr, r) returns.
HandlerReturn ==
  /\ pc = "run"
  /\ HandlerEnds(NoPanic)
  /\ UNCHANGED <<lh, raceVars, twoVars, now, mtx, lr, w, call, nOps, start, doneChan, ld, reqs, panics>>
  /\ UNCHANGED pollVars

\* lh.next.ServeHTTP(lr, r) panics with v.
HandlerPanic(v) ==
  /\ pc = "run"
  /\ v \in PanicValues
  /\ HandlerEnds(v)
  /\ UNCHANGED <<lh, raceVars, twoVars, now, mtx, lr, w, call, nOps, start, doneChan, ld, reqs, panics>>
  /\ UNCHANGED pollVars


\* ------------------------------------------------------------ ServeHTTP
\* A poller that is started for a zero cutoff too.
StartsPollerAtZero(cutoff) == cutoff >= 0

\* The poller is started only for a positive cutoff.
StartsPoller(cutoff) == cutoff > 0

\* ServeHTTP up to the call of the wrapped handler: a fresh interceptor, the
\* start time, and, with a slowLogger whose cutoff is positive, doneChan and
\* the slowLog goroutine.
ServeHTTPBegin ==
  /\ pc = "idle"
  /\ lr' = NewLoggedRequest
  /\ start' = now
  /\ IF lh.slowLogger.present /\ StartsPoller(lh.slowLogger.cutoff)
       THEN doneChan' = "open" /\ ppc' = "start"
       ELSE doneChan' = "nil" /\ ppc' = "none"
  /\ pc' = "run"
  /\ UNCHANGED <<lh, raceVars, twoVars, now, mtx, w, call, nOps, panicking, ld, reqs, panics, hist>>
  /\ UNCHANGED <<i, timerAt, psnap, slow>>

\* A deferred block that closes doneChan without testing it.
ClosesChanAlways(ch) == TRUE

\* A deferred block that never closes doneChan.
ClosesChanNever(ch) == FALSE

\* if doneChan != nil
ClosesChan(ch) == ch # "nil"

\* close(ch): an open channel becomes closed; the close of a nil or of a
\* closed channel is a run-time panic and leaves the channel as it is.
Close(ch) ==
  IF ch = "open" THEN [ch |-> "closed", fault |-> FALSE]
                 ELSE [ch |-> ch, fault |-> TRUE]

\* Deferred block: if doneChan != nil { close(doneChan) }.  A close that
\* panics ends the deferred block: ServeHTTP leaves with that panic.
DeferCancel ==
  /\ pc = "deferred"
  /\ IF ClosesChan(doneChan)
       THEN /\ doneChan' = Close(doneChan).ch
            /\ hist' = [hist EXCEPT !.closes = @ + 1,
                                    !.closeFault = @ \/ Close(doneChan).fault]
            /\ pc' = IF Close(doneChan).fault THEN "panicked" ELSE "snapshot"
            /\ panicking' = IF Close(doneChan).fault THEN "boo" ELSE panicking
       ELSE /\ pc' = "snapshot"
            /\ UNCHANGED <<doneChan, hist, panicking>>
  /\ UNCHANGED <<lh, raceVars, twoVars, now, mtx, lr, w, call, nOps, start, ld, reqs, panics>>
  /\ UNCHANGED pollVars

\* Deferred block: currentData (Lock, read, Unlock); ld is built from it.
DeferSnapshot ==
  /\ pc = "snapshot"
  /\ mtx = "free"
  /\ mtx' = UnlockDeferred(Lock(mtx))
  /\ ld' = [status       |-> CurrentData(lr).status,
            bytesWritten |-> CurrentData(lr).bytesWritten,
            hdrSet       |-> hist.hdrArgs # <<>>,
            hdrDone      |-> hist.hdrDone]
  /\ pc' = "emit"
  /\ hist' = [hist EXCEPT !.snapTaken = TRUE, !.slowAtSnap = Len(slow)]
  /\ UNCHANGED <<lh, raceVars, twoVars, now, lr, w, call, nOps, panicking, start, doneChan, reqs, panics>>
  /\ UNCHANGED pollVars

\* A deferred block that recovers whatever the observer's capabilities.
RecoversAlways(handler) == TRUE

\* The deferred block recovers only with a panicLogger.
Recovers(handler) == handler.panicLogger

\* recover(): the pending panic's value; nil when the goroutine is not
\* panicking, and also when it panics with nil.
Recover(p) == IF p = NoPanic THEN NilValue ELSE p

\* A completion that logs the panic and then falls through to LogRequest.
CompletionFallsThrough(handler, p) ==
  IF Recovers(handler)
    THEN [logPanic |-> Recover(p) # NilValue, logRequest |-> TRUE,
          err |-> Recover(p), pending |-> NoPanic]
    ELSE [logPanic |-> FALSE, logRequest |-> TRUE, err |-> NilValue, pending |-> p]

\* A completion that skips LogRequest while a panic is pending.
CompletionSilentOnPanic(handler, p) ==
  IF Recovers(handler)
    THEN [logPanic |-> Recover(p) # NilValue, logRequest |-> Recover(p) = NilValue,
          err |-> Recover(p), pending |-> NoPanic]
    ELSE [logPanic |-> FALSE, logRequest |-> p = NoPanic, err |-> NilValue,
          pending |-> p]

\* The end of the deferred block: which observer call is made, with which
\* recovered value, and the panic still pending when the block returns.
Completion(handler, p) ==
  IF Recovers(handler)
    THEN IF Recover(p) # NilValue
           THEN [logPanic |-> TRUE, logRequest |-> FALSE,
                 err |-> Recover(p), pending |-> NoPanic]
           ELSE [logPanic |-> FALSE, logRequest |-> TRUE,
                 err |-> NilValue, pending |-> NoPanic]
    ELSE [logPanic |-> FALSE, logRequest |-> TRUE, err |-> NilValue, pending |-> p]

\* Deferred block: the terminal observer call; then ServeHTTP returns to its
\* caller, or keeps panicking into it.
DeferEmit ==
  /\ pc = "emit"
  /\ LET c == Completion(lh, panicking) IN
       /\ panics' = IF c.logPanic
                      THEN Append(panics, [ld |-> ld, err |-> c.err])
                      ELSE panics
       /\ reqs' = IF c.logRequest THEN Append(reqs, ld) ELSE reqs
       /\ panicking' = c.pending
       /\ pc' = IF c.pending = NoPanic THEN "returned" ELSE "panicked"
  /\ UNCHANGED <<lh, raceVars, twoVars, now, mtx, lr, w, call, nOps, start, doneChan, ld, hist>>
  /\ UNCHANGED pollVars

\* -------------------------------------------------------------- slowLog
\* A loop that ignores `multiple`.
LoopAlways(multiple, idx) == TRUE

\* for i := 0; multiple || i == 0; i++
LoopCond(multiple, idx) == multiple \/ idx = 0

\* A timer that is due at once.
TimerDeadlineNow(t, cutoff) == t

\* time.After(cutoff) called at t: when its timer fires.
TimerDeadline(t, cutoff) == t + cutoff

\* A select that takes the timer case before the timer has fired.
TimerExpiredEarly(at, t) == t + 1 >= at

\* The timer of time.After(cutoff), due at `at`, has fired by `t`.
TimerExpired(at, t) == t >= at

\* A loop whose post statement leaves i alone.
NextIndexStuck(idx) == idx

\* The loop's post statement, i++.
NextIndex(idx) == idx + 1

\* The head of an iteration with index idx: if the loop condition holds the
\* select statement is entered and time.After(cutoff) creates the
\* iteration's timer; otherwise slowLog returns.
LoopHead(idx) ==
  IF LoopCond(lh.slowLogger.multiple, idx)
    THEN ppc' = "select" /\ timerAt' = TimerDeadline(now, lh.slowLogger.cutoff)
    ELSE ppc' = "done" /\ timerAt' = timerAt

\* The slowLog goroutine starts to run: the head of iteration 0.
PollerStart ==
  /\ ppc = "start"
  /\ LoopHead(i)
  /\ UNCHANGED <<lh, raceVars, twoVars, now, mtx, hist, i, psnap, slow>>
  /\ UNCHANGED reqVars

\* select: case <-doneChan: return
PollerDone ==
  /\ ppc = "select"
  /\ doneChan = "closed"
  /\ ppc' = "done"
  /\ UNCHANGED <<lh, raceVars, twoVars, now, mtx, hist, i, timerAt, psnap, slow>>
  /\ UNCHANGED reqVars

\* A poller whose snapshot reads the counters and resets them.
PollerSnapshotAndReset ==
  /\ ppc = "select"
  /\ TimerExpired(timerAt, now)
  /\ mtx = "free"
  /\ mtx' = UnlockDeferred(Lock(mtx))
  /\ psnap' = [status       |-> CurrentData(lr).status,
               bytesWritten |-> CurrentData(lr).bytesWritten,
               hdrSet       |-> hist.hdrArgs # <<>>,
               hdrDone      |-> hist.hdrDone]
  /\ lr' = NewLoggedRequest
  /\ ppc' = "emit"
  /\ UNCHANGED <<lh, raceVars, twoVars, now, hist, i, timerAt, slow>>
  /\ UNCHANGED <<pc, w, call, nOps, panicking, start, doneChan, ld, reqs, panics>>

\* select: case <-time.After(cutoff) (with both channels ready select takes
\* either); then currentData: Lock, read, Unlock.
PollerSnapshot ==
  /\ ppc = "select"
  /\ TimerExpired(timerAt, now)
  /\ mtx = "free"
  /\ mtx' = UnlockDeferred(Lock(mtx))
  /\ psnap' = [status       |-> CurrentData(lr).status,
               bytesWritten |-> CurrentData(lr).bytesWritten,
               hdrSet       |-> hist.hdrArgs # <<>>,
               hdrDone      |-> hist.hdrDone]
  /\ ppc' = "emit"
  /\ UNCHANGED <<lh, raceVars, twoVars, now, hist, i, timerAt, slow>>
  /\ UNCHANGED reqVars

\* slowLog: ld is built from the snapshot and handed to
\* LogSlowRequest(ld, i); when the observer returns, i++ and the head of the
\* next iteration.
PollerEmit ==
  /\ ppc = "emit"
  /\ slow' = Append(slow, [status       |-> psnap.status,
                           bytesWritten |-> psnap.bytesWritten,
                           hdrSet       |-> psnap.hdrSet,
                           hdrDone      |-> psnap.hdrDone,
                           i            |-> i])
  /\ i' = NextIndex(i)
  /\ LoopHead(NextIndex(i))
  /\ UNCHANGED <<lh, raceVars, twoVars, now, mtx, hist, psnap>>
  /\ UNCHANGED reqVars

\* --------------------------------------------------------- specification
Next ==
  \/ Tick
  \/ ServeHTTPBegin
  \/ \E code \in Codes : CallWriteHeader(code)
  \/ WriteHeaderForward
  \/ WriteHeaderForwardPanics
  \/ \E n \in 1..MaxLen : \E written \in 0..n : CallWrite(n, written)
  \/ WriteCount
  \/ HandlerReturn
  \/ \E v \in PanicValues : HandlerPanic(v)
  \/ DeferCancel
  \/ DeferSnapshot
  \/ DeferEmit
  \/ PollerStart
  \/ PollerDone
  \/ PollerSnapshot
  \/ PollerEmit

Spec == Init /\ [][Next]_vars

\* Scheduling, as far as the poller's end depends on it.  A goroutine that
\* can run is run eventually: the deferred block reaches close(doneChan)
\* once the handler has finished, slowLog starts, and its call of
\* LogSlowRequest returns.  select chooses at random among its ready cases,
\* so the doneChan case, ready at every select once doneChan is closed, is
\* chosen eventually.  Nothing makes the wrapped handler finish or the clock
\* advance.
Fairness ==
  /\ WF_vars(DeferCancel)
  /\ WF_vars(PollerStart)
  /\ WF_vars(PollerEmit)
  /\ SF_vars(PollerDone)

FairSpec == Spec /\ Fairness

\* ------------------------------------- one interceptor, several goroutines
\* A wrapped handler may call the ResponseWriter it was given from several
\* goroutines; lr.mtx is what makes that safe for the interceptor's fields.
\* Here the handler of one request is in flight and its goroutines call
\* lr.WriteHeader and lr.Write.
Threads == {1, 2}

\* Calls the goroutines of the handler issue at most, all together.
MaxRaceOps == MaxOps + 1

\* What stays as it is while the handler's goroutines run.
raceFrame == <<lh, now, pc, call, panicking, start, doneChan, ld, ppc, i,
               timerAt, psnap, slow, reqs, panics, twoVars>>

InitRace ==
  /\ lh = LoggerMiddleware(FALSE, FALSE, 0, FALSE)
  /\ now = 0
  /\ pc = "run"
  /\ mtx = "free"
  /\ lr = NewLoggedRequest
  /\ w = [headers |-> <<>>, writes |-> 0, bytes |-> 0]
  /\ call = NoCall
  /\ nOps = 0
  /\ panicking = NoPanic
  /\ start = 0
  /\ doneChan = "nil"
  /\ ld = NoData
  /\ ppc = "none"
  /\ i = 0
  /\ timerAt = 0
  /\ psnap = NoSnap
  /\ slow = <<>>
  /\ reqs = <<>>
  /\ panics = <<>>
  /\ th = [t \in Threads |-> [pc |-> "run", arg |-> 0, written |-> 0]]
  /\ rq = <<>>
  /\ lrs = <<>>
  /\ chans = <<>>
  /\ hist = [hdrArgs   |-> <<>>,
             hdrDone   |-> FALSE,
             issuedLen |-> 0,
             raised    |-> NoPanic,
             atEnd     |-> NewLoggedRequest,
             tEnd      |-> 0,
             snapTaken |-> FALSE,
             slowAtSnap|-> 0,
             closes    |-> 0,
             closeFault|-> FALSE]

\* Goroutine t calls lr.WriteHeader(code): the critical section.
RaceWriteHeader(t, code) ==
  /\ th[t].pc = "run"
  /\ nOps < MaxRaceOps
  /\ mtx = "free"
  /\ mtx' = Unlock(Lock(mtx))
  /\ nOps' = nOps + 1
  /\ lr' = RecordStatus(lr, code)
  /\ th' = IF Forwards(lr)
             THEN [th EXCEPT ![t] = [pc |-> "wh_fwd", arg |-> code, written |-> 0]]
             ELSE th
  /\ hist' = [hist EXCEPT !.hdrArgs = Append(@, code),
                          !.hdrDone = @ \/ ~Forwards(lr)]
  /\ UNCHANGED w
  /\ UNCHANGED raceFrame

\* Goroutine t, in WriteHeader: lr.w.WriteHeader(code), outside the lock.
RaceWriteHeaderForward(t) ==
  /\ th[t].pc = "wh_fwd"
  /\ w' = [w EXCEPT !.headers = Append(@, th[t].arg)]
  /\ th' = [th EXCEPT ![t] = [pc |-> "run", arg |-> 0, written |-> 0]]
  /\ hist' = [hist EXCEPT !.hdrDone = TRUE]
  /\ UNCHANGED <<mtx, lr, nOps>>
  /\ UNCHANGED raceFrame

\* Goroutine t calls lr.Write(data), len(data) = n: lr.w.Write(data) first.
RaceWrite(t, n, written) ==
  /\ th[t].pc = "run"
  /\ nOps < MaxRaceOps
  /\ written \in 0..n
  /\ nOps' = nOps + 1
  /\ w' = [w EXCEPT !.writes = @ + 1, !.bytes = @ + written]
  /\ th' = [th EXCEPT ![t] = [pc |-> "w_lock", arg |-> n, written |-> written]]
  /\ hist' = [hist EXCEPT !.issuedLen = @ + n]
  /\ UNCHANGED <<mtx, lr>>
  /\ UNCHANGED raceFrame

\* Goroutine t, in Write: Lock; lr.bytesWritten += int64(written); Unlock.
RaceWriteCount(t) ==
  /\ th[t].pc = "w_lock"
  /\ mtx = "free"
  /\ mtx' = Unlock(Lock(mtx))
  /\ lr' = [lr EXCEPT !.bytesWritten = @ + Counted(th[t].arg, th[t].written)]
  /\ th' = [th EXCEPT ![t] = [pc |-> "run", arg |-> 0, written |-> 0]]
  /\ UNCHANGED <<w, nOps, hist>>
  /\ UNCHANGED raceFrame

NextRace ==
  \/ \E t \in Threads : \E code \in Codes : RaceWriteHeader(t, code)
  \/ \E t \in Threads : RaceWriteHeaderForward(t)
  \/ \E t \in Threads : \E n \in 1..MaxLen : \E written \in 0..n :
       RaceWrite(t, n, written)
  \/ \E t \in Threads : RaceWriteCount(t)

SpecRace == InitRace /\ [][NextRace]_vars

\* ----------------------------------- one logHandler, concurrent requests
\* net/http calls ServeHTTP of the one logHandler from one goroutine per
\* request.  Each call has its own locals (lr, doneChan) and its own poller;
\* the interceptors and channels they refer to live on the heap (lrs,
\* chans).  Time is not modelled here: any amount of it may pass between two
\* steps, so a poller's timer may have fired whenever the poller selects.
\* The calls into a request's own stream are joined to the step before them,
\* and a snapshot to the observer call that follows it (how those interleave
\* within one request is what Spec explores).
Requests == {1, 2}

\* WriteHeader/Write calls one request's handler issues at most.
MaxReqOps == 1
\* LogSlowRequest calls one request's poller makes at most.
MaxReqSlow == 1

\* The observers told apart by what ServeHTTP does with them.
TwoHandlers ==
  { LoggerMiddleware(p, s, c, m) :
      p \in BOOLEAN, s \in BOOLEAN, c \in {0, 1}, m \in BOOLEAN }

\* The status codes the handler of request r passes to WriteHeader: the two
\* requests answer with different codes, so that an event carrying the other
\* request's status shows.
ReqCodes(r) == IF r = 1 THEN {200} ELSE {999}

\* One interceptor for all requests.
NewLrShared(r) == 1

\* lr := &loggedRequest{w: w}: a fresh interceptor for request r.
NewLr(r) == r

\* One channel for all requests.
MakeChanShared(r) == 1

\* make(chan struct{}): a fresh channel for request r.
MakeChan(r) == r

\* What stays as it is while the concurrent requests run.
twoFrame == <<lh, now, pc, mtx, lr, w, call, nOps, panicking, start, doneChan,
              ld, ppc, i, timerAt, psnap, slow, reqs, panics, hist, raceVars>>

\* The nil reference (var doneChan chan struct{} before make).
NilRef == 0

\* The channel a reference stands for: nil, or a channel of the heap.
ChanAt(ref) == IF ref = NilRef THEN "nil" ELSE chans[ref]

IdleRequest ==
  [pc |-> "idle", lr |-> NilRef, doneChan |-> NilRef, nOps |-> 0,
   panicking |-> NoPanic, ppc |-> "none", i |-> 0,
   slow |-> <<>>, terms |-> <<>>,
   first  |-> 0,    \* history: the first code the handler passed to WriteHeader
   sent   |-> 0,    \* history: bytes the request's stream took
   closeFault |-> FALSE]  \* history: a close of a nil or closed channel

InitTwo ==
  /\ lh \in TwoHandlers
  /\ now = 0
  /\ pc = "idle"
  /\ mtx = "free"
  /\ lr = NewLoggedRequest
  /\ w = [headers |-> <<>>, writes |-> 0, bytes |-> 0]
  /\ call = NoCall
  /\ nOps = 0
  /\ panicking = NoPanic
  /\ start = 0
  /\ doneChan = "nil"
  /\ ld = NoData
  /\ ppc = "none"
  /\ i = 0
  /\ timerAt = 0
  /\ psnap = NoSnap
  /\ slow = <<>>
  /\ reqs = <<>>
  /\ panics = <<>>
  /\ th = <<>>
  /\ rq = [r \in Requests |-> IdleRequest]
  /\ lrs = [r \in Requests |-> NewLoggedRequest]
  /\ chans = [r \in Requests |-> "unmade"]
  /\ hist = [hdrArgs   |-> <<>>,
             hdrDone   |-> FALSE,
             issuedLen |-> 0,
             raised    |-> NoPanic,
             atEnd     |-> NewLoggedRequest,
             tEnd      |-> 0,
             snapTaken |-> FALSE,
             slowAtSnap|-> 0,
             closes    |-> 0,
             closeFault|-> FALSE]

\* ServeHTTP of request r up to the call of the wrapped handler.
TwoBegin(r) ==
  /\ rq[r].pc = "idle"
  /\ lrs' = [lrs EXCEPT ![NewLr(r)] = NewLoggedRequest]
  /\ IF lh.slowLogger.present /\ StartsPoller(lh.slowLogger.cutoff)
       THEN /\ chans' = [chans EXCEPT ![MakeChan(r)] = "open"]
            /\ rq' = [rq EXCEPT ![r].pc = "run", ![r].lr = NewLr(r),
                                ![r].doneChan = MakeChan(r), ![r].ppc = "start"]
       ELSE /\ chans' = chans
            /\ rq' = [rq EXCEPT ![r].pc = "run", ![r].lr = NewLr(r)]
  /\ UNCHANGED twoFrame

\* The handler of request r calls lr.WriteHeader(code).
TwoWriteHeader(r, code) ==
  /\ rq[r].pc = "run"
  /\ rq[r].nOps < MaxReqOps
  /\ lrs' = [lrs EXCEPT ![rq[r].lr] = RecordStatus(@, code)]
  /\ rq' = [rq EXCEPT ![r].nOps = @ + 1,
                      ![r].first = IF @ = 0 THEN code ELSE @]
  /\ UNCHANGED chans
  /\ UNCHANGED twoFrame

\* The handler of request r calls lr.Write(data), len(data) = n; the
\* request's stream takes all of it.
TwoWrite(r, n) ==
  /\ rq[r].pc = "run"
  /\ rq[r].nOps < MaxReqOps
  /\ lrs' = [lrs EXCEPT ![rq[r].lr].bytesWritten = @ + Counted(n, n)]
  /\ rq' = [rq EXCEPT ![r].nOps = @ + 1, ![r].sent = @ + n]
  /\ UNCHANGED chans
  /\ UNCHANGED twoFrame

\* The handler of request r returns (p = NoPanic) or panics.
TwoHandlerEnds(r, p) ==
  /\ rq[r].pc = "run"
  /\ p \in {NoPanic, "boo"}
  /\ rq' = [rq EXCEPT ![r].pc = "deferred", ![r].panicking = p]
  /\ UNCHANGED <<lrs, chans>>
  /\ UNCHANGED twoFrame

\* Deferred block of request r: if doneChan != nil { close(doneChan) }
TwoDeferCancel(r) ==
  /\ rq[r].pc = "deferred"
  /\ IF ClosesChan(ChanAt(rq[r].doneChan))
       THEN LET c == Close(ChanAt(rq[r].doneChan)) IN
            /\ chans' = [chans EXCEPT ![rq[r].doneChan] = c.ch]
            /\ rq' = [rq EXCEPT
                        ![r].pc = IF c.fault THEN "panicked" ELSE "snapshot",
                        ![r].panicking = IF c.fault THEN "boo" ELSE @,
                        ![r].closeFault = c.fault]
       ELSE /\ chans' = chans
            /\ rq' = [rq EXCEPT ![r].pc = "snapshot"]
  /\ UNCHANGED lrs
  /\ UNCHANGED twoFrame

\* Deferred block of request r: currentData, then the terminal observer
\* call with the pair it returned.
TwoDeferLog(r) ==
  /\ rq[r].pc = "snapshot"
  /\ LET c == Completion(lh, rq[r].panicking)
         d == CurrentData(lrs[rq[r].lr])
         e == [panic |-> c.logPanic, status |-> d.status,
               bytesWritten |-> d.bytesWritten]
     IN  rq' = [rq EXCEPT
                 ![r].terms = Append(@, e),
                 ![r].panicking = c.pending,
                 ![r].pc = IF c.pending = NoPanic THEN "returned" ELSE "panicked"]
  /\ UNCHANGED <<lrs, chans>>
  /\ UNCHANGED twoFrame

\* slowLog of request r starts to run: the head of iteration 0.
TwoPollerStart(r) ==
  /\ rq[r].ppc = "start"
  /\ rq' = [rq EXCEPT ![r].ppc =
              IF LoopCond(lh.slowLogger.multiple, rq[r].i) THEN "select" ELSE "done"]
  /\ UNCHANGED <<lrs, chans>>
  /\ UNCHANGED twoFrame

\* slowLog of request r, select: case <-doneChan: return
TwoPollerDone(r) ==
  /\ rq[r].ppc = "select"
  /\ ChanAt(rq[r].doneChan) = "closed"
  /\ rq' = [rq EXCEPT ![r].ppc = "done"]
  /\ UNCHANGED <<lrs, chans>>
  /\ UNCHANGED twoFrame

\* slowLog of request r, select: case <-time.After(cutoff); currentData;
\* LogSlowRequest(ld, i) with the pair it returned; i++; the next iteration.
TwoPollerLog(r) ==
  /\ rq[r].ppc = "select"
  /\ Len(rq[r].slow) < MaxReqSlow
  /\ LET d == CurrentData(lrs[rq[r].lr]) IN
     rq' = [rq EXCEPT
              ![r].slow = Append(@, [status |-> d.status,
                                     bytesWritten |-> d.bytesWritten,
                                     i |-> rq[r].i]),
              ![r].i = NextIndex(@),
              ![r].ppc = IF LoopCond(lh.slowLogger.multiple, NextIndex(rq[r].i))
                           THEN "select" ELSE "done"]
  /\ UNCHANGED <<lrs, chans>>
  /\ UNCHANGED twoFrame

NextTwo ==
  \E r \in Requests :
    \/ TwoBegin(r)
    \/ \E code \in ReqCodes(r) : TwoWriteHeader(r, code)
    \/ \E n \in 1..MaxLen : TwoWrite(r, n)
    \/ \E p \in {NoPanic, "boo"} : TwoHandlerEnds(r, p)
    \/ TwoDeferCancel(r)
    \/ TwoDeferLog(r)
    \/ TwoPollerStart(r)
    \/ TwoPollerDone(r)
    \/ TwoPollerLog(r)

SpecTwo == InitTwo /\ [][NextTwo]_vars



\* ------------------------------------------------------------ vocabulary
\* ServeHTTP has left, by returning or by panicking into its caller.
Exited == pc \in {"returned", "panicked"}

\* A poller was started for the request.
PollerStarted == ppc # "none"

\* The terminal entries the observer received (LogRequest and LogPanic).
TerminalEntries ==
  {reqs[k] : k \in DOMAIN reqs} \cup {panics[k].ld : k \in DOMAIN panics}

\* ---------------------------------------------------------------- claims

\* C1: by the time ServeHTTP exits, exactly one terminal event (LogRequest or
\* LogPanic) has been emitted for the request, whatever the observer's
\* capabilities and however the handler ended; never both.
C1_ExactlyOneTerminal ==
  /\ Len(reqs) + Len(panics) <= 1
  /\ Exited => Len(reqs) + Len(panics) = 1

\* C1 witness: ServeHTTP left panicking (no PanicLogger) while a poller had
\* emitted, with one terminal event.
C1_Witness ==
  /\ pc = "panicked"
  /\ ~lh.panicLogger
  /\ Len(slow) > 0
  /\ Len(reqs) + Len(panics) = 1

\* C2 (as claimed): with a PanicLogger, a handler panic with value v yields
\* exactly one LogPanic carrying the interceptor's status and bytesWritten at
\* the moment of the panic and v, no LogRequest, and a normal return.
C2_PanicLoggedAndSuppressed ==
  (Exited /\ lh.panicLogger /\ hist.raised # NoPanic) =>
    /\ Len(panics) = 1
    /\ panics[1].err = hist.raised
    /\ panics[1].ld.status = hist.atEnd.status
    /\ panics[1].ld.bytesWritten = hist.atEnd.bytesWritten
    /\ reqs = <<>>
    /\ pc = "returned"

\* C3: without a PanicLogger a handler panic is not recovered: ServeHTTP
\* leaves panicking with the value the handler raised.
C3_PanicPropagates ==
  (Exited /\ ~lh.panicLogger /\ hist.raised # NoPanic) =>
    /\ pc = "panicked"
    /\ panicking = hist.raised

\* C3 witness: ServeHTTP left panicking with the handler's non-nil value.
C3_Witness ==
  /\ pc = "panicked"
  /\ ~lh.panicLogger
  /\ hist.raised = "boo"
  /\ panicking = "boo"

\* C4 (as claimed): without a PanicLogger a handler panic leaves no event of
\* any kind, and LogRequest is emitted only when no failure is pending.
C4_NoEventOnUnloggedPanic ==
  /\ (Exited /\ ~lh.panicLogger /\ hist.raised # NoPanic) =>
       (reqs = <<>> /\ panics = <<>> /\ slow = <<>>)
  /\ (reqs # <<>> => hist.raised = NoPanic)

\* C4 (amended): without a PanicLogger no LogPanic is ever emitted and
\* exactly one LogRequest is emitted by the time ServeHTTP exits, also when
\* the handler panicked (the panic then still propagates).
C4_RequestLoggedOnUnloggedPanic ==
  ~lh.panicLogger =>
    /\ panics = <<>>
    /\ Exited => Len(reqs) = 1

\* C4 witness: the handler panicked, no PanicLogger; LogRequest was emitted
\* once, after slow events, and the panic propagates.
C4_Witness ==
  /\ pc = "panicked"
  /\ ~lh.panicLogger
  /\ hist.raised # NoPanic
  /\ Len(reqs) = 1
  /\ Len(slow) >= 1
  /\ panics = <<>>

\* C5 (as claimed): the terminal entry's bytesWritten is the sum of len(data)
\* over the Write calls the handler issued, whatever the stream returned.
C5_BytesEqualIssuedLengths ==
  \A e \in TerminalEntries : e.bytesWritten = hist.issuedLen

\* C5 (amended): the terminal entry's bytesWritten is the sum of the counts
\* the underlying stream's Write returned (len(data) for a full write),
\* whether or not WriteHeader was called.
C5_BytesEqualReturnedCounts ==
  \A e \in TerminalEntries : e.bytesWritten = w.bytes

\* C5 witness: two writes, one of them short, no WriteHeader: the terminal
\* entry counts the returned bytes, fewer than the bytes issued.
C5_Witness ==
  /\ Exited
  /\ ~lr.wroteHeader
  /\ w.writes = MaxOps
  /\ \E e \in TerminalEntries :
       e.bytesWritten = w.bytes /\ e.bytesWritten > 0 /\ e.bytesWritten < hist.issuedLen


\* C6 (as claimed): every emitted entry's status is 0 if no WriteHeader call
\* has completed, and otherwise the argument of the first WriteHeader call.
C6_StatusZeroUntilCallCompleted ==
  /\ \A k \in DOMAIN slow :
       slow[k].status = IF slow[k].hdrDone THEN hist.hdrArgs[1] ELSE 0
  /\ \A e \in TerminalEntries :
       e.status = IF e.hdrDone THEN hist.hdrArgs[1] ELSE 0

\* C6 (amended): every emitted entry's status is 0 if no WriteHeader call had
\* run its critical section (recorded its code under the lock) when the
\* entry's snapshot was taken, and otherwise the argument of the first
\* WriteHeader call; later calls and body writes do not change it.
C6_StatusIsFirstCode ==
  /\ \A k \in DOMAIN slow :
       slow[k].status = IF slow[k].hdrSet THEN hist.hdrArgs[1] ELSE 0
  /\ \A e \in TerminalEntries :
       e.status = IF e.hdrSet THEN hist.hdrArgs[1] ELSE 0

\* C6 witness: two WriteHeader calls with different codes; a slow entry and
\* the terminal entry both carry the first code.
C6_Witness ==
  /\ Exited
  /\ Len(hist.hdrArgs) = 2
  /\ hist.hdrArgs[1] # hist.hdrArgs[2]
  /\ \E k \in DOMAIN slow : slow[k].hdrSet /\ slow[k].status = hist.hdrArgs[1]
  /\ \E e \in TerminalEntries : e.status = hist.hdrArgs[1]

\* C6 second witness: a write without WriteHeader leaves status 0.
C6_WitnessNoHeader ==
  /\ Exited
  /\ hist.hdrArgs = <<>>
  /\ \E e \in TerminalEntries : e.status = 0 /\ e.bytesWritten > 0

C7_SlowCountUpper ==
  (Exited /\ ppc = "done" /\ PollerStarted /\ lh.slowLogger.multiple) =>
    Len(slow) <= ((hist.tEnd - start) \div lh.slowLogger.cutoff) + 1

C8_SingleSlowWithoutRepeat ==
  (PollerStarted /\ ~lh.slowLogger.multiple) =>
    /\ Len(slow) <= 1
    /\ \A k \in DOMAIN slow : slow[k].i = 0
    /\ Len(slow) = 1 => ppc = "done"

\* C8 witness: the poller has ended after its one emission while doneChan is
\* still open and the handler runs on.
C8_Witness ==
  /\ ~lh.slowLogger.multiple
  /\ Len(slow) = 1
  /\ ppc = "done"
  /\ doneChan = "open"
  /\ pc = "run"
  /\ now - start > lh.slowLogger.cutoff

\* C9: without the SlowRequestLogger capability, or with a cutoff <= 0, no
\* poller is started, no doneChan is made and no slow event is emitted.
C9_NoPollerWithoutPositiveCutoff ==
  (~lh.slowLogger.present \/ lh.slowLogger.cutoff <= 0) =>
    /\ ppc = "none"
    /\ doneChan = "nil"
    /\ slow = <<>>

\* C9 witness: a repeating SlowRequestLogger with cutoff 0; the handler ran
\* to the end of the clock and ServeHTTP left without a slow event.
C9_Witness ==
  /\ Exited
  /\ lh.slowLogger.present
  /\ lh.slowLogger.multiple
  /\ lh.slowLogger.cutoff = 0
  /\ hist.tEnd - start = MaxTime
  /\ slow = <<>>

\* C10 (as claimed): after the cancellation and the terminal snapshot at
\* most one further slow event is emitted.
C10_AtMostOneSlowAfterSnapshot ==
  hist.snapTaken => Len(slow) <= hist.slowAtSnap + 1

\* C10 (amended): after the cancellation and the terminal snapshot one
\* further slow event may be emitted at once, and each additional one needs
\* a further full cutoff to elapse after the handler finished.
C10_SlowAfterSnapshotPaced ==
  (hist.snapTaken /\ PollerStarted) =>
    (Len(slow) - hist.slowAtSnap - 1) * lh.slowLogger.cutoff <= now - hist.tEnd

\* C10 witness: two slow events after the terminal snapshot.
C10_Witness ==
  /\ hist.snapTaken
  /\ Len(slow) = hist.slowAtSnap + 2

\* The request goroutine is in the deferred block past the cancellation, or
\* has left ServeHTTP.
PastCancel == pc \in {"snapshot", "emit", "returned", "panicked"}

\* C11: on every exit path the completion steps come in the order handler
\* finished, cancellation (if a poller was started), terminal snapshot,
\* terminal event: doneChan is closed only once the handler has finished, the
\* snapshot is taken only after the cancellation and equals the interceptor's
\* data at the handler's end, and a terminal event exists only after the
\* snapshot, never while the handler runs.
C11_CompletionOrder ==
  /\ doneChan = "closed" => PastCancel
  /\ (PastCancel /\ PollerStarted) => doneChan = "closed"
  /\ hist.snapTaken <=> pc \in {"emit", "returned", "panicked"}
  /\ hist.snapTaken =>
       /\ ld.status = hist.atEnd.status
       /\ ld.bytesWritten = hist.atEnd.bytesWritten
  /\ (reqs # <<>> \/ panics # <<>>) <=> Exited
  /\ \A e \in TerminalEntries :
       e.status = hist.atEnd.status /\ e.bytesWritten = hist.atEnd.bytesWritten

\* C11 witness: a handler that set a status, wrote and panicked, with a
\* PanicLogger and a started poller: cancelled, snapshotted, then logged.
C11_Witness ==
  /\ pc = "returned"
  /\ hist.raised = "boo"
  /\ doneChan = "closed"
  /\ Len(panics) = 1
  /\ panics[1].ld.status = 999
  /\ panics[1].ld.bytesWritten = 1

\* C12: the k-th LogSlowRequest call of a request (counting from 0) carries
\* index k: the indices are 0, 1, 2, ... without gap or repeat.
C12_SlowIndicesCount ==
  \A k \in DOMAIN slow : slow[k].i = k - 1

\* C12 witness: two slow events, indices 0 and 1.
C12_Witness ==
  /\ Len(slow) = 2
  /\ slow[1].i = 0
  /\ slow[2].i = 1

\* The counts returned by the stream's Write for the Write calls whose
\* counter update has completed.
CountedSoFar == w.bytes - (IF pc = "w_lock" THEN call.written ELSE 0)

\* C13: every slow event carries the (status, bytesWritten) pair the
\* interceptor held at the one instant of the poller's snapshot: bytesWritten
\* is the sum of the writes whose counter update completed before it, status
\* is the first code if a WriteHeader call completed before it; and the event
\* emitted next carries exactly that pair.
C13_SlowEventIsOneInstant ==
  [][ /\ (ppc = "select" /\ ppc' = "emit") =>
           /\ psnap'.status = lr.status
           /\ psnap'.bytesWritten = lr.bytesWritten
           /\ psnap'.bytesWritten = CountedSoFar
           /\ hist.hdrDone => psnap'.status = hist.hdrArgs[1]
      /\ slow' # slow =>
           /\ Len(slow') = Len(slow) + 1
           /\ SubSeq(slow', 1, Len(slow)) = slow
           /\ slow'[Len(slow')].status = psnap.status
           /\ slow'[Len(slow')].bytesWritten = psnap.bytesWritten
    ]_vars

\* C13 witness: a slow event snapshotted between the handler's first and
\* second write shows the first write's bytes only; the terminal entry shows
\* both writes.
C13_Witness ==
  /\ Exited
  /\ w.writes = 2
  /\ \E k \in DOMAIN slow : slow[k].bytesWritten = 1
  /\ \E e \in TerminalEntries : e.bytesWritten = 2

\* C13 second witness: a slow event snapshotted between WriteHeader(999) and
\* the write shows the status and no bytes.
C13_WitnessStatus ==
  /\ Exited
  /\ \E k \in DOMAIN slow : slow[k].status = 999 /\ slow[k].bytesWritten = 0
  /\ \E e \in TerminalEntries : e.status = 999 /\ e.bytesWritten = 1

\* C14: the interceptor's bytesWritten never decreases, so the snapshots of
\* one request are non-decreasing in bytesWritten in the order they were
\* taken: successive slow events, and every slow event against the terminal
\* entry.
C14_BytesNeverDecrease ==
  /\ [][lr'.bytesWritten >= lr.bytesWritten]_vars
  /\ [](\A k \in DOMAIN slow :
           /\ \A l \in DOMAIN slow :
                k <= l => slow[k].bytesWritten <= slow[l].bytesWritten
           /\ slow[k].bytesWritten <= lr.bytesWritten
           /\ \A e \in TerminalEntries : slow[k].bytesWritten <= e.bytesWritten)

\* C14 witness: two slow events and the terminal entry with strictly growing
\* bytesWritten.
C14_Witness ==
  /\ Exited
  /\ Len(slow) = 2
  /\ slow[1].bytesWritten < slow[2].bytesWritten
  /\ \E e \in TerminalEntries : slow[2].bytesWritten < e.bytesWritten

\* C15: close(doneChan) is executed at most once per request, by the
\* deferred block of ServeHTTP only (after the handler finished, returning
\* or panicking) and only if a poller was started; a nil or an already
\* closed channel is never closed.
C15_CloseOnceIfStarted ==
  /\ hist.closes <= 1
  /\ ~hist.closeFault
  /\ hist.closes = 1 <=> doneChan = "closed"
  /\ hist.closes = 1 <=> (PollerStarted /\ PastCancel)
  /\ ~PollerStarted => doneChan = "nil"

\* C15 witness: the handler panicked, no PanicLogger, a poller had been
\* started: one close, and ServeHTTP left panicking.
C15_Witness ==
  /\ pc = "panicked"
  /\ hist.raised = "boo"
  /\ PollerStarted
  /\ hist.closes = 1
  /\ doneChan = "closed"

\* C15 second witness: no poller was started; ServeHTTP left without a close.
C15_WitnessNoPoller ==
  /\ Exited
  /\ lh.slowLogger.present
  /\ ~PollerStarted
  /\ hist.closes = 0

\* C16: a poller that takes the doneChan case returns at once, without an
\* emission in that iteration; with repeat the poller returns only once
\* doneChan is closed; and once the handler has finished, by returning or
\* panicking, a started poller eventually returns.
C16_PollerLifetime ==
  /\ [][(ppc = "select" /\ ppc' = "done") =>
         (doneChan = "closed" /\ slow' = slow /\ psnap' = psnap)]_vars
  /\ []((lh.slowLogger.multiple /\ ppc = "done") => doneChan = "closed")
  /\ ((pc = "deferred" /\ PollerStarted) ~> ppc = "done")

\* C16 witness: a repeating poller that emitted twice has returned after the
\* handler panicked and ServeHTTP left.
C16_Witness ==
  /\ Exited
  /\ hist.raised # NoPanic
  /\ lh.slowLogger.multiple
  /\ Len(slow) = 2
  /\ ppc = "done"

\* C17: lr.mtx is not held while the observer (LogSlowRequest, LogRequest,
\* LogPanic) or the underlying stream is being called; so with the poller
\* inside LogSlowRequest, for however long, the handler's WriteHeader and
\* Write critical sections and the terminal snapshot can be taken.
C17_NoLockAcrossCalls ==
  /\ (ppc = "emit" \/ pc \in {"wh_fwd", "w_lock", "emit"}) => mtx = "free"
  /\ (ppc = "emit" /\ pc = "run" /\ nOps < MaxOps) =>
       \A code \in Codes : ENABLED CallWriteHeader(code)
  /\ (ppc = "emit" /\ pc = "w_lock") => ENABLED WriteCount
  /\ (ppc = "emit" /\ pc = "snapshot") => ENABLED DeferSnapshot

\* C17 witness: the poller took its snapshot before the handler did
\* anything and is still inside LogSlowRequest; meanwhile the handler set
\* the status and wrote, and ServeHTTP logged the request and returned.
C17_Witness ==
  /\ ppc = "emit"
  /\ ~psnap.hdrSet
  /\ psnap.bytesWritten = 0
  /\ pc = "returned"
  /\ Len(reqs) = 1
  /\ reqs[1].status = 999
  /\ reqs[1].bytesWritten = 1

\* C19: the interceptor's status, wroteHeader and bytesWritten change only
\* in the critical sections of the handler's WriteHeader and Write calls; the
\* steps of the poller and the steps of the deferred completion block leave
\* them as they are, so from the handler's end on they keep their value.
C19_OnlyHandlerCallsChangeInterceptor ==
  /\ [][ /\ lr' # lr =>
             \/ pc = "run" /\ pc' \in {"run", "wh_fwd"} /\ nOps' = nOps + 1
             \/ pc = "w_lock" /\ pc' = "run"
         /\ (ppc' # ppc \/ slow' # slow \/ psnap' # psnap) => lr' = lr
         /\ pc \in {"deferred", "snapshot", "emit"} => lr' = lr
       ]_vars
  /\ []((pc = "deferred" \/ PastCancel) => lr = hist.atEnd)

\* C19 witness: the handler set a status and wrote; since then the poller
\* has emitted and returned and the completion block has run: the
\* interceptor is as the handler left it.
C19_Witness ==
  /\ Exited
  /\ ppc = "done"
  /\ Len(slow) >= 1
  /\ lr = [status |-> 999, wroteHeader |-> TRUE, bytesWritten |-> 1]
  /\ lr = hist.atEnd

\* The goroutines of the handler that are between the critical section of
\* WriteHeader and the forwarding call.
Forwarding == {t \in DOMAIN th : th[t].pc = "wh_fwd"}

\* C18: every Write call is forwarded to the underlying stream exactly once;
\* of all WriteHeader calls on one interceptor, from whichever goroutines,
\* exactly one is forwarded, the first to take the lock, and the code it
\* forwards is the recorded status; the other calls neither change the
\* status nor forward.
C18_ForwardsOnce ==
  /\ w.writes = nOps - Len(hist.hdrArgs)
  /\ Len(w.headers) + Cardinality(Forwarding) =
       (IF hist.hdrArgs # <<>> THEN 1 ELSE 0)
  /\ \A t \in Forwarding : th[t].arg = hist.hdrArgs[1]
  /\ \A k \in DOMAIN w.headers : w.headers[k] = hist.hdrArgs[1]
  /\ lr.wroteHeader <=> hist.hdrArgs # <<>>
  /\ lr.status = IF hist.hdrArgs # <<>> THEN hist.hdrArgs[1] ELSE 0

\* C18 witness: two goroutines raced with different codes; the one that took
\* the lock second has returned, the first has forwarded its code, which is
\* the recorded status.
C18_Witness ==
  /\ Len(hist.hdrArgs) = 2
  /\ hist.hdrArgs[1] # hist.hdrArgs[2]
  /\ w.headers = <<hist.hdrArgs[1]>>
  /\ lr.status = hist.hdrArgs[1]
  /\ Forwarding = {}

\* C18 second witness: the goroutine that lost the race has returned while
\* the winner has not yet forwarded.
C18_WitnessMidRace ==
  /\ Len(hist.hdrArgs) = 2
  /\ Cardinality(Forwarding) = 1
  /\ w.headers = <<>>

\* Request r is in its deferred block past the cancellation, or has left
\* ServeHTTP.
TwoPastCancel(r) == rq[r].pc \in {"snapshot", "returned", "panicked"}

\* C20: requests served concurrently by one logHandler are isolated.  Each
\* has its own interceptor and its own doneChan; a request's doneChan is
\* closed only by that request's completion, so its poller is never
\* cancelled by another request's end; every slow and terminal event of a
\* request carries that request's status and bytesWritten; and each request
\* gets exactly one terminal event, by the time its ServeHTTP exits.
C20_RequestsIsolated ==
  \A r \in Requests :
    /\ \A s \in Requests \ {r} :
         /\ rq[r].lr # NilRef => rq[r].lr # rq[s].lr
         /\ rq[r].doneChan # NilRef => rq[r].doneChan # rq[s].doneChan
    /\ rq[r].doneChan # NilRef =>
         (ChanAt(rq[r].doneChan) = "closed" <=> TwoPastCancel(r))
    /\ ~rq[r].closeFault
    /\ (lh.slowLogger.multiple /\ rq[r].ppc = "done") => TwoPastCancel(r)
    /\ \A k \in DOMAIN rq[r].slow :
         /\ rq[r].slow[k].status \in {0, rq[r].first}
         /\ rq[r].slow[k].bytesWritten <= rq[r].sent
    /\ \A k \in DOMAIN rq[r].terms :
         /\ rq[r].terms[k].status = rq[r].first
         /\ rq[r].terms[k].bytesWritten = rq[r].sent
    /\ Len(rq[r].terms) <= 1
    /\ rq[r].pc \in {"returned", "panicked"} <=> Len(rq[r].terms) = 1

\* C20 witness: request 1 wrote, panicked and left ServeHTTP with its one
\* terminal event, while request 2, begun before that, is still running:
\* its doneChan is open, its poller has emitted its own status and waits.
C20_Witness ==
  /\ rq[1].pc = "panicked"
  /\ Len(rq[1].slow) = 1
  /\ rq[1].terms = <<[panic |-> FALSE, status |-> 0, bytesWritten |-> 1]>>
  /\ ChanAt(rq[1].doneChan) = "closed"
  /\ rq[2].pc = "run"
  /\ ChanAt(rq[2].doneChan) = "open"
  /\ rq[2].ppc = "select"
  /\ Len(rq[2].slow) = 1
  /\ rq[2].slow[1].status = 999
  /\ rq[2].slow[1].bytesWritten = 0

====
